---- MODULE Spec2Model ----
(***************************************************************************)
(* The nexus_security_user resource of terraform-provider-nexus            *)
(* (nexus/resource_security_user.go): the schema and the lifecycle         *)
(* callbacks Create, Read, Update, Delete and Exists, run against a Nexus  *)
(* user store reached through client.Security.User.                        *)
(*                                                                         *)
(* d is the schema.ResourceData the callbacks work on: d.id is d.Id() and  *)
(* the other fields are what d.Get(key) returns.  On entry to Create and   *)
(* Update d.Get yields the planned (configured) values and d.HasChange     *)
(* compares them with the prior state; d.Set and d.SetId overwrite them.   *)
(***************************************************************************)
EXTENDS Naturals, Sequences, FiniteSets

VARIABLES
    cfg,      \* the resource block of the configuration, as written
    d,        \* the resource data as the last callback left it (the state)
    remote,   \* the Nexus server: userid -> stored user, or NoUser
    ret,      \* the last or the running callback: op, err, the prior state
              \* it was entered with (what d.HasChange compares with), the
              \* server on entry, its calls, the events between them, exists
    changes,  \* number of configuration edits and of changes other actors
              \* made on the server so far
    pc        \* the position of the running callback between two of its
              \* client calls, or Idle

vars == <<cfg, d, remote, ret, changes, pc>>

(* Bound of the exploration: configuration edits plus server changes *)
MaxChanges == 2

(* Value domains *)
UserIds   == {"admin", "dev"}
Names     == {"A", "B"}
Emails    == {"a@x", "b@x"}
Passwords == {"pw1", "pw2"}
RoleNames == {"nx-admin", "nx-anonymous"}
Omitted   == "<omitted>"
StatusInputs == {Omitted, "active", "disabled", "locked"}

NoErr        == "nil"
ErrTransport == "transport error"
ErrNotFound  == "user not found"
ErrExists    == "user exists"
NoUser       == [nil |-> TRUE]

(* ---------------------------------------------------------------------- *)
(* Schema                                                                  *)
(* ---------------------------------------------------------------------- *)

\* ValidateFunc of "status": validation.StringInSlice({"active","disabled"}, false)
\* (variant: no validation)
ValidStatusAny(s) == TRUE
ValidStatus(s) == s \in {"active", "disabled"}

\* Default of "status": an omitted attribute reads as "active"
StatusDefault(s) == IF s = Omitted THEN "active" ELSE s

\* Schema validation of a configuration: the ValidateFunc runs on a status
\* that is written; an omitted one is not validated.
ValidConfig(c) == c.status = Omitted \/ ValidStatus(c.status)

\* ForceNew on "userid": a planned userid differing from the state's one
\* requires replacement (variant: never).
RequiresNewNever(old, c) == FALSE
RequiresNew(old, c) == old.id # "" /\ old.userid # c.userid

\* schema.Set.List(): the elements ordered by the decimal string of their
\* hash code (crc32 of the element followed by ";"): "nx-admin;" hashes to
\* 3360874991 and "nx-anonymous;" to 620786795, so nx-admin comes first.
RoleOrder == <<"nx-admin", "nx-anonymous">>
SetList(S) == SelectSeq(RoleOrder, LAMBDA r : r \in S)

\* d.Set("roles", list): the list becomes a set
ListSet(l) == {l[i] : i \in 1..Len(l)}

\* The zero-valued resource data of a resource that is not in the state
ZeroData ==
    [id |-> "", userid |-> "", firstname |-> "", lastname |-> "", email |-> "",
     password |-> "", status |-> "", roles |-> {}]

\* The prior state a callback starts from: nothing when the id is empty.
\* The callbacks never call d.Partial, so what a callback leaves in the
\* resource data is what the next one starts from, also after an error.
PriorState(s) == IF s.id = "" THEN ZeroData ELSE s

\* The resource data Create and Update receive: the id of the prior state
\* and the planned attribute values
PlannedData(s, c) ==
    [id |-> PriorState(s).id, userid |-> c.userid, firstname |-> c.firstname,
     lastname |-> c.lastname, email |-> c.email, password |-> c.password,
     status |-> StatusDefault(c.status), roles |-> c.roles]

\* d.HasChange(key) on entry: prior state against planned value
HasChange(old, new, key) == old[key] # new[key]

(* ---------------------------------------------------------------------- *)
(* Other actors on the server                                              *)
(* ---------------------------------------------------------------------- *)

\* A change somebody else makes on the server: the deletion of a user or a
\* new value for one field of a user.  The server is shared, so such changes,
\* any number of them, can fall before a callback, after it, or between two
\* client calls of one callback.
RoleLists(name) ==
    CASE name = "none"       -> <<>>
      [] name = "anon,admin" -> <<"nx-anonymous", "nx-admin">>

\* The values other actors give a field; the server knows more statuses
\* than the two the schema admits
EventValues(field) ==
    CASE field = "FirstName"    -> Names
      [] field = "LastName"     -> Names
      [] field = "EmailAddress" -> Emails
      [] field = "Password"     -> Passwords
      [] field = "Status"       -> {"active", "disabled", "locked"}
      [] field = "Roles"        -> {"none", "anon,admin"}

UserFields == {"FirstName", "LastName", "EmailAddress", "Password", "Status", "Roles"}

DeleteEvents == {[kind |-> "delete", u |-> u, field |-> "", value |-> ""] : u \in UserIds}
SetEvents ==
    UNION {{[kind |-> "set", u |-> u, field |-> f, value |-> v] :
              u \in UserIds, v \in EventValues(f)} : f \in UserFields}

StoredValue(ev) == IF ev.field = "Roles" THEN RoleLists(ev.value) ELSE ev.value

Present(r, id) == id \in DOMAIN r /\ r[id] # [nil |-> TRUE]

\* ev changes the server r
Effective(r, ev) ==
    /\ Present(r, ev.u)
    /\ ev.kind = "set" => r[ev.u][ev.field] # StoredValue(ev)

ApplyEvent(r, ev) ==
    IF ev.kind = "delete" THEN [r EXCEPT ![ev.u] = [nil |-> TRUE]]
    ELSE [r EXCEPT ![ev.u][ev.field] = StoredValue(ev)]

(* ---------------------------------------------------------------------- *)
(* client.Security.User: the Nexus server behind the client                *)
(* ---------------------------------------------------------------------- *)

Exists(r, id) == id \in DOMAIN r /\ r[id] # NoUser

\* fail: the call fails in transport
ClientCreate(r, user, fail) ==
    LET err == IF fail THEN ErrTransport
               ELSE IF Exists(r, user.UserID) THEN ErrExists ELSE NoErr
    IN [remote |-> IF err = NoErr THEN [r EXCEPT ![user.UserID] = user] ELSE r,
        call |-> [call |-> "Create", user |-> user, err |-> err]]

\* The server does not return the password
ClientGet(r, id, fail) ==
    LET err == IF fail THEN ErrTransport ELSE NoErr
        user == IF err = NoErr /\ Exists(r, id)
                THEN [r[id] EXCEPT !.Password = ""] ELSE NoUser
    IN [user |-> user,
        call |-> [call |-> "Get", id |-> id, user |-> user, err |-> err]]

ClientChangePassword(r, id, password, fail) ==
    LET err == IF fail THEN ErrTransport
               ELSE IF ~Exists(r, id) THEN ErrNotFound ELSE NoErr
    IN [remote |-> IF err = NoErr THEN [r EXCEPT ![id].Password = password] ELSE r,
        call |-> [call |-> "ChangePassword", id |-> id, password |-> password,
                  err |-> err]]

\* Whole-record replace of the profile fields of the user stored under id
ClientUpdate(r, id, user, fail) ==
    LET err == IF fail THEN ErrTransport
               ELSE IF ~Exists(r, id) THEN ErrNotFound ELSE NoErr
    IN [remote |-> IF err = NoErr
                   THEN [r EXCEPT ![id] = [user EXCEPT !.UserID = id,
                                                       !.Password = r[id].Password]]
                   ELSE r,
        call |-> [call |-> "Update", id |-> id, user |-> user, err |-> err]]

ClientDelete(r, id, fail) ==
    LET err == IF fail THEN ErrTransport
               ELSE IF ~Exists(r, id) THEN ErrNotFound ELSE NoErr
    IN [remote |-> IF err = NoErr THEN [r EXCEPT ![id] = NoUser] ELSE r,
        call |-> [call |-> "Delete", id |-> id, err |-> err]]

(* ---------------------------------------------------------------------- *)
(* The callbacks, cut at their client calls                                *)
(*                                                                         *)
(* Every client call blocks, and the server can change while a callback    *)
(* waits.  A callback is therefore a sequence of steps, each running the   *)
(* code up to and including one client call.  A step yields the resource   *)
(* data, the server, the error and the call it made, and the position pc   *)
(* the callback is left in.                                                *)
(* ---------------------------------------------------------------------- *)

Idle      == "idle"             \* no callback is running (the last returned)
AtProfile == "Update:profile"   \* Update before the HasChange test of l.143
AtRead    == "Read"             \* Create and Update before their concluding
                                \* "return resourceSecurityUserRead(d, m)"

\* (variant: first and last name taken from each other's attribute)
getSecurityUserFromResourceDataSwapped(rd) ==
    [UserID |-> rd.userid, FirstName |-> rd.lastname, LastName |-> rd.firstname,
     EmailAddress |-> rd.email, Password |-> rd.password, Status |-> rd.status,
     Roles |-> SetList(rd.roles)]
getSecurityUserFromResourceData(rd) ==
    [UserID |-> rd.userid, FirstName |-> rd.firstname, LastName |-> rd.lastname,
     EmailAddress |-> rd.email, Password |-> rd.password, Status |-> rd.status,
     Roles |-> SetList(rd.roles)]

SetId(rd, id) == [rd EXCEPT !.id = id]

\* The d.Set calls of Read (variant: the password is set as well)
ReadSetPassword(rd, user) ==
    [rd EXCEPT !.email = user.EmailAddress, !.firstname = user.FirstName,
               !.lastname = user.LastName, !.roles = ListSet(user.Roles),
               !.status = user.Status, !.userid = user.UserID,
               !.password = user.Password]
ReadSet(rd, user) ==
    [rd EXCEPT !.email = user.EmailAddress, !.firstname = user.FirstName,
               !.lastname = user.LastName, !.roles = ListSet(user.Roles),
               !.status = user.Status, !.userid = user.UserID]

\* What Read does when the server has no such user (variant: nothing)
ReadNotFoundKeep(rd) == rd
ReadNotFound(rd) == SetId(rd, "")

\* Read: one call, Get, and what follows it
resourceSecurityUserRead(rd, r, fail) ==
    LET g == ClientGet(r, rd.id, fail) IN
    [d      |-> IF g.call.err # NoErr THEN rd
                ELSE IF g.user = NoUser THEN ReadNotFound(rd)
                ELSE ReadSet(rd, g.user),
     remote |-> r, err |-> g.call.err, calls |-> <<g.call>>, pc |-> Idle]

\* Create up to its concluding Read (variant: the identity is set before the
\* create call)
resourceSecurityUserCreateEarlyId(rd, r, fail) ==
    LET user == getSecurityUserFromResourceData(rd)
        c    == ClientCreate(r, user, fail)
    IN [d |-> SetId(rd, user.UserID), remote |-> c.remote, err |-> c.call.err,
        calls |-> <<c.call>>, pc |-> IF c.call.err # NoErr THEN Idle ELSE AtRead]
resourceSecurityUserCreate(rd, r, fail) ==
    LET user == getSecurityUserFromResourceData(rd)
        c    == ClientCreate(r, user, fail)
    IN IF c.call.err # NoErr
       THEN [d |-> rd, remote |-> c.remote, err |-> c.call.err,
             calls |-> <<c.call>>, pc |-> Idle]
       ELSE [d |-> SetId(rd, user.UserID), remote |-> c.remote, err |-> NoErr,
             calls |-> <<c.call>>, pc |-> AtRead]

\* The two conditions of Update (variant of the second: roles not looked at)
PasswordChanged(old, rd) == HasChange(old, rd, "password")
ProfileChangedNoRoles(old, rd) ==
    \/ HasChange(old, rd, "firstname") \/ HasChange(old, rd, "lastname")
    \/ HasChange(old, rd, "email") \/ HasChange(old, rd, "status")
ProfileChanged(old, rd) ==
    \/ HasChange(old, rd, "firstname") \/ HasChange(old, rd, "lastname")
    \/ HasChange(old, rd, "email") \/ HasChange(old, rd, "status")
    \/ HasChange(old, rd, "roles")

\* The body of "if d.HasChange("password")": the change-password call
UpdatePassword(rd, r, fail) ==
    LET p == ClientChangePassword(r, rd.id, rd.password, fail) IN
    [d |-> rd, remote |-> p.remote, err |-> p.call.err, calls |-> <<p.call>>,
     pc |-> IF p.call.err # NoErr THEN Idle ELSE AtProfile]

\* The body of the second if: the general update call (variants: the record
\* sent is built from the prior state; the error of the call is dropped)
UpdateProfileStale(old, rd, r, fail) ==
    LET u == ClientUpdate(r, rd.id, getSecurityUserFromResourceData(old), fail) IN
    [d |-> rd, remote |-> u.remote, err |-> u.call.err, calls |-> <<u.call>>,
     pc |-> IF u.call.err # NoErr THEN Idle ELSE AtRead]
UpdateProfileIgnoreErr(old, rd, r, fail) ==
    LET u == ClientUpdate(r, rd.id, getSecurityUserFromResourceData(rd), fail) IN
    [d |-> rd, remote |-> u.remote, err |-> NoErr, calls |-> <<u.call>>,
     pc |-> AtRead]
UpdateProfile(old, rd, r, fail) ==
    LET u == ClientUpdate(r, rd.id, getSecurityUserFromResourceData(rd), fail) IN
    [d |-> rd, remote |-> u.remote, err |-> u.call.err, calls |-> <<u.call>>,
     pc |-> IF u.call.err # NoErr THEN Idle ELSE AtRead]

\* Update from the test of l.143 up to and including its next client call:
\* the general update call, or the Get of the concluding Read
UpdateFromProfile(old, rd, r, fail) ==
    IF ProfileChanged(old, rd)
    THEN UpdateProfile(old, rd, r, fail)
    ELSE resourceSecurityUserRead(rd, r, fail)

\* Update from its entry up to and including its first client call
resourceSecurityUserUpdate(old, rd, r, fail) ==
    IF PasswordChanged(old, rd)
    THEN UpdatePassword(rd, r, fail)
    ELSE UpdateFromProfile(old, rd, r, fail)

\* What Delete does to the resource data after a successful delete call
\* (variant: nothing)
DeleteDoneKeep(rd) == rd
DeleteDone(rd) == SetId(rd, "")

resourceSecurityUserDelete(rd, r, fail) ==
    LET x == ClientDelete(r, rd.id, fail) IN
    [d |-> IF x.call.err # NoErr THEN rd ELSE DeleteDone(rd),
     remote |-> x.remote, err |-> x.call.err, calls |-> <<x.call>>, pc |-> Idle]

resourceSecurityUserExists(rd, r, fail) ==
    LET g == ClientGet(r, rd.id, fail) IN
    [exists |-> g.user # NoUser, err |-> g.call.err, calls |-> <<g.call>>]

\* Importer: schema.ImportStatePassthrough gives an otherwise empty resource
\* data the id the operator names
ImportStatePassthrough(s, id) == SetId(PriorState(s), id)

(* ---------------------------------------------------------------------- *)
(* State machine                                                           *)
(* ---------------------------------------------------------------------- *)

ConfigFields == {"userid", "firstname", "lastname", "email", "password",
                 "status", "roles"}

FieldValues(k) ==
    CASE k = "userid"    -> UserIds
      [] k = "firstname" -> Names
      [] k = "lastname"  -> Names
      [] k = "email"     -> Emails
      [] k = "password"  -> Passwords
      [] k = "status"    -> StatusInputs
      [] k = "roles"     -> SUBSET RoleNames

InitConfig ==
    [userid |-> "admin", firstname |-> "A", lastname |-> "A", email |-> "a@x",
     password |-> "pw1", status |-> Omitted, roles |-> {"nx-admin"}]

\* A user the server holds from the start, created by somebody else
PreExistingUser ==
    [UserID |-> "dev", FirstName |-> "B", LastName |-> "B", EmailAddress |-> "b@x",
     Password |-> "pw2", Status |-> "disabled", Roles |-> <<"nx-anonymous">>]

\* The resource block an operator writes for that user in order to import
\* it, asking for another e-mail address
ImportConfig ==
    [userid |-> "dev", firstname |-> "B", lastname |-> "B", email |-> "a@x",
     password |-> "pw2", status |-> "disabled", roles |-> {"nx-anonymous"}]

\* The record of a step that runs no callback
NoCallback(op) ==
    [op |-> op, err |-> NoErr, prior |-> ZeroData, before |-> <<>>, calls |-> <<>>,
     oob |-> <<>>, exists |-> FALSE]

Init ==
    /\ cfg \in {InitConfig, ImportConfig}
    /\ d = ZeroData
    /\ remote = [u \in UserIds |-> IF u = "dev" THEN PreExistingUser ELSE NoUser]
    /\ ret = NoCallback("Init")
    /\ changes = 0
    /\ pc = Idle

\* The record of a callback that is entered now
Begin(op) ==
    [op |-> op, err |-> NoErr, prior |-> d, before |-> remote, calls |-> <<>>,
     oob |-> <<>>, exists |-> FALSE]

\* The callback recorded in rec takes the step with result res
Advance(rec, res) ==
    /\ d' = res.d
    /\ remote' = res.remote
    /\ pc' = res.pc
    /\ ret' = [rec EXCEPT !.err = res.err, !.calls = @ \o res.calls]
    /\ UNCHANGED <<cfg, changes>>

\* The operator edits one attribute of the resource block.  An edit made
\* while a callback runs does not reach it (the plan is fixed) and is the
\* same as an edit made after it.
EditConfig ==
    /\ pc = Idle
    /\ changes < MaxChanges
    /\ \E k \in ConfigFields : \E v \in FieldValues(k) :
          /\ cfg[k] # v
          /\ cfg' = [cfg EXCEPT ![k] = v]
    /\ changes' = changes + 1
    /\ ret' = NoCallback("EditConfig")
    /\ UNCHANGED <<d, remote, pc>>

\* Apply of a resource that is not in the state: Create is entered with the
\* planned values and runs up to the return of its create call
Create ==
    /\ pc = Idle
    /\ d.id = ""
    /\ ValidConfig(cfg)
    /\ \E fail \in BOOLEAN :
          Advance(Begin("Create"),
                  resourceSecurityUserCreate(PlannedData(d, cfg), remote, fail))

\* Refresh of a resource that is in the state
Read ==
    /\ pc = Idle
    /\ d.id # ""
    /\ ValidConfig(cfg)
    /\ \E fail \in BOOLEAN :
          Advance(Begin("Read"), resourceSecurityUserRead(d, remote, fail))

\* Apply of a resource that is in the state and needs no replacement: Update
\* is entered with the planned values and runs up to the return of its first
\* client call
Update ==
    /\ pc = Idle
    /\ d.id # ""
    /\ ValidConfig(cfg)
    /\ ~RequiresNew(d, cfg)
    /\ \E fail \in BOOLEAN :
          Advance(Begin("Update"),
                  resourceSecurityUserUpdate(d, PlannedData(d, cfg), remote, fail))

\* Update goes on after its change-password call returned no error
UpdateContinue ==
    /\ pc = AtProfile
    /\ \E fail \in BOOLEAN :
          Advance(ret, UpdateFromProfile(ret.prior, d, remote, fail))

\* Create and Update end with Read
ConcludingRead ==
    /\ pc = AtRead
    /\ \E fail \in BOOLEAN :
          Advance(ret, resourceSecurityUserRead(d, remote, fail))

\* Destroy, also the first half of a replacement
Delete ==
    /\ pc = Idle
    /\ d.id # ""
    /\ ValidConfig(cfg)
    /\ \E fail \in BOOLEAN :
          Advance(Begin("Delete"), resourceSecurityUserDelete(d, remote, fail))

ExistsCheck ==
    /\ pc = Idle
    /\ d.id # ""
    /\ ValidConfig(cfg)
    /\ \E fail \in BOOLEAN :
          LET e == resourceSecurityUserExists(d, remote, fail) IN
          /\ ret' = [Begin("Exists") EXCEPT !.err = e.err, !.calls = e.calls,
                                            !.exists = e.exists]
          /\ UNCHANGED <<cfg, d, remote, changes, pc>>

\* Import of a user under the id the operator names: the passthrough
\* importer, then Read; the resource enters the state when Read returns no
\* error (with an empty id when the server has no such user).
Import ==
    /\ pc = Idle
    /\ d.id = ""
    /\ ValidConfig(cfg)
    /\ \E id \in UserIds : \E fail \in BOOLEAN :
          LET rr == resourceSecurityUserRead(ImportStatePassthrough(d, id), remote,
                                             fail)
          IN Advance(Begin("Import"),
                     [rr EXCEPT !.d = IF rr.err = NoErr THEN rr.d ELSE d])

\* Somebody else changes the server while the callback is at position p.
\* While a callback waits between two of its calls the change is recorded
\* with the number of calls made so far; a change of another user than the
\* callback's commutes with the callback's calls and is taken before or
\* after the callback.
CanHappen(p, ev) == Effective(remote, ev) /\ (p # Idle => ev.u = d.id)
Recorded(p, ev) ==
    IF p = Idle THEN NoCallback("OutOfBand")
    ELSE [ret EXCEPT !.oob = Append(@, [at |-> Len(ret.calls), ev |-> ev])]

\* Somebody else deletes a user on the server
OutOfBandDelete ==
    /\ changes < MaxChanges
    /\ \E ev \in DeleteEvents :
          /\ CanHappen(pc, ev)
          /\ remote' = ApplyEvent(remote, ev)
          /\ ret' = Recorded(pc, ev)
    /\ changes' = changes + 1
    /\ UNCHANGED <<cfg, d, pc>>

\* Somebody else changes a field of a user on the server
OutOfBandModify ==
    /\ changes < MaxChanges
    /\ \E ev \in SetEvents :
          /\ CanHappen(pc, ev)
          /\ remote' = ApplyEvent(remote, ev)
          /\ ret' = Recorded(pc, ev)
    /\ changes' = changes + 1
    /\ UNCHANGED <<cfg, d, pc>>

Next ==
    \/ EditConfig
    \/ Create
    \/ Read
    \/ Update
    \/ UpdateContinue
    \/ ConcludingRead
    \/ Delete
    \/ ExistsCheck
    \/ Import
    \/ OutOfBandDelete
    \/ OutOfBandModify

Spec == Init /\ [][Next]_vars

TypeOK ==
    /\ d.id \in UserIds \cup {""}
    /\ changes \in 0..MaxChanges
    /\ pc \in {Idle, AtProfile, AtRead}
    /\ pc # Idle => ret.op \in {"Create", "Update"}

(* ---------------------------------------------------------------------- *)
(* Properties                                                              *)
(* ---------------------------------------------------------------------- *)

\* The callback op has returned
Returned(op) == pc = Idle /\ ret.op = op

\* The resource data the last callback was entered with
Entry ==
    IF ret.op \in {"Create", "Update"} THEN PlannedData(ret.prior, cfg) ELSE ret.prior

Calls(kind) == {i \in 1..Len(ret.calls) : ret.calls[i].call = kind}
Issued(kind) == Calls(kind) # {}
LastCall == ret.calls[Len(ret.calls)]
Failed(kind) == \E i \in Calls(kind) : ret.calls[i].err # NoErr
GotNoUser ==
    /\ ret.calls # <<>>
    /\ LastCall.call = "Get" /\ LastCall.err = NoErr /\ LastCall.user = NoUser

\* The status a configuration asks for
ConfiguredStatus == IF cfg.status = Omitted THEN "active" ELSE cfg.status

\* The non-password fields of a resource data equal the configuration
MatchesConfig(rd) ==
    /\ rd.userid = cfg.userid /\ rd.firstname = cfg.firstname
    /\ rd.lastname = cfg.lastname /\ rd.email = cfg.email
    /\ rd.status = ConfiguredStatus /\ rd.roles = cfg.roles

ProfileDiffers ==
    \/ ret.prior.firstname # cfg.firstname \/ ret.prior.lastname # cfg.lastname
    \/ ret.prior.email # cfg.email \/ ret.prior.status # ConfiguredStatus
    \/ ret.prior.roles # cfg.roles
PasswordDiffers == ret.prior.password # cfg.password

\* C1 as stated: after a successful Create (which ends in Read) the resource
\* data has the submitted configuration in its non-password fields and the
\* submitted userid as its identity.
C1_AsStated ==
    (Returned("Create") /\ ret.err = NoErr) =>
        /\ d.id = cfg.userid
        /\ MatchesConfig(d)

\* C1 amended: after a successful Create during which nobody else changed
\* the server between the create call and the Get of the Read, the resource
\* data has the submitted configuration in its non-password fields and the
\* submitted userid as its identity, and a Read that follows at once yields
\* the same.  Whatever happened in between, a successful Create that found
\* the user leaves the submitted userid as identity, the submitted password,
\* and in the other fields what the Get returned.
C1_CreateThenReadMatchesConfig ==
    /\ (Returned("Create") /\ ret.err = NoErr /\ ret.oob = <<>>) =>
          /\ d.id = cfg.userid
          /\ MatchesConfig(d)
          /\ LET again == resourceSecurityUserRead(d, remote, FALSE) IN
                /\ again.err = NoErr
                /\ again.d.id = cfg.userid
                /\ MatchesConfig(again.d)
    /\ (Returned("Create") /\ ret.err = NoErr /\ ~GotNoUser) =>
          LET user == LastCall.user IN
          d = [id |-> cfg.userid, password |-> cfg.password,
               email |-> user.EmailAddress, firstname |-> user.FirstName,
               lastname |-> user.LastName, roles |-> ListSet(user.Roles),
               status |-> user.Status, userid |-> user.UserID]

C1_Witness ==
    /\ Returned("Create") /\ ret.err = NoErr /\ ret.oob = <<>>
    /\ cfg.roles = RoleNames /\ d.roles = RoleNames /\ d.id = "admin"

\* C2 as stated: in every Update the change-password call is issued iff the
\* password differs and the general update call iff a profile field differs.
C2_AsStated ==
    Returned("Update") =>
        /\ Issued("ChangePassword") <=> PasswordDiffers
        /\ Issued("Update") <=> ProfileDiffers

\* C2 amended: the change-password call is issued iff the password differs
\* from the prior state; the general update call is issued iff a profile
\* field differs and the change-password call, if issued, did not fail; when
\* both are issued the change-password call comes first; when neither
\* differs the only remote call is the Get of the concluding Read.
C2_UpdateCallsFollowChanges ==
    Returned("Update") =>
        /\ Issued("ChangePassword") <=> PasswordDiffers
        /\ Issued("Update") <=> (ProfileDiffers /\ ~Failed("ChangePassword"))
        /\ Cardinality(Calls("ChangePassword")) <= 1
        /\ (Issued("ChangePassword") /\ Issued("Update")) =>
              /\ ret.calls[1].call = "ChangePassword"
              /\ ret.calls[2].call = "Update"
        /\ (~PasswordDiffers /\ ~ProfileDiffers) =>
              /\ Len(ret.calls) = 1 /\ ret.calls[1].call = "Get"
              /\ remote = ret.before

C2_Witness ==
    /\ Returned("Update") /\ ret.err = NoErr
    /\ PasswordDiffers /\ ProfileDiffers
    /\ Len(ret.calls) = 3

\* C3: when the Get of a Read (also of the Read concluding Create or Update)
\* reports no user and no error, the callback returns no error and leaves
\* the resource data as entered except for the identity, which is empty.
C3_ReadNotFoundClearsId ==
    (ret.op \in {"Create", "Read", "Update"} /\ GotNoUser) =>
        /\ ret.err = NoErr
        /\ d = [Entry EXCEPT !.id = ""]

C3_Witness ==
    /\ ret.op = "Read" /\ GotNoUser
    /\ ret.prior.id = "admin" /\ d.id = "" /\ d.userid = "admin"

\* C4: Read and Update keep the identity and the userid of the prior state
\* (the identity is emptied only when the server reports the user absent),
\* every remote call of Update is keyed on that identity, Update never runs
\* with a configured userid other than the state's, and Create runs only
\* for a resource without identity.
C4_LoginIdNeverMutated ==
    /\ (ret.op \in {"Read", "Update"}) =>
          /\ ret.prior.id # ""
          /\ d.userid = ret.prior.userid
          /\ d.id = IF GotNoUser THEN "" ELSE ret.prior.id
          /\ d.userid = ret.prior.id
    /\ (ret.op = "Update") =>
          /\ cfg.userid = ret.prior.userid
          /\ \A i \in 1..Len(ret.calls) : ret.calls[i].id = ret.prior.id
          /\ \A i \in Calls("Update") : ret.calls[i].user.UserID = ret.prior.id
    /\ (ret.op = "Create") => ret.prior.id = ""

C4_Witness ==
    /\ Returned("Update") /\ ret.err = NoErr /\ Issued("Update")
    /\ d.id = "dev" /\ ret.prior.id = "dev" /\ d.userid = "dev"

\* C5 as stated: whenever Create returns an error the identity is empty.
C5_AsStated ==
    (Returned("Create") /\ ret.err # NoErr) => d.id = ""

\* C5 amended: an error of Create is the error of its last client call; when
\* the create call failed the identity is empty and the resource data is as
\* entered; when the create call succeeded and the Get of the concluding
\* Read failed the identity is the configured userid.
C5_CreateErrorIdentity ==
    (ret.op = "Create" /\ ret.err # NoErr) =>
        /\ pc = Idle
        /\ ret.err = LastCall.err
        /\ Failed("Create") =>
              /\ d.id = "" /\ d = Entry /\ Len(ret.calls) = 1
              /\ remote = ret.before
        /\ ~Failed("Create") =>
              /\ LastCall.call = "Get"
              /\ d = [Entry EXCEPT !.id = cfg.userid]

C5_Witness ==
    /\ Returned("Create") /\ ret.err = ErrTransport
    /\ Failed("Create") /\ d.id = "" /\ d.userid = "admin"

\* C6: in Update a failed change-password call ends the update with that
\* error, without the general update call and without Get; a failed general
\* update call ends it with that error, without Get; in both cases the
\* resource data is as it was on entry.
C6_UpdateErrorAborts ==
    (ret.op = "Update") =>
        /\ Failed("ChangePassword") =>
              /\ pc = Idle
              /\ ret.err = ret.calls[1].err
              /\ Len(ret.calls) = 1
              /\ ~Issued("Update") /\ ~Issued("Get")
              /\ d = Entry
        /\ Failed("Update") =>
              /\ pc = Idle
              /\ ret.err = LastCall.err
              /\ LastCall.call = "Update"
              /\ ~Issued("Get")
              /\ d = Entry

C6_Witness ==
    /\ Returned("Update") /\ Failed("Update") /\ ret.err = ErrTransport
    /\ Issued("ChangePassword") /\ d = Entry

\* C7: no callback runs and no remote call is issued under a configuration
\* whose status is written and is neither "active" nor "disabled", every
\* user record sent carries "active" or "disabled", and an omitted status
\* is sent as "active".
C7_InvalidStatusRejected ==
    /\ (cfg.status \notin {Omitted, "active", "disabled"}) =>
          pc = Idle /\ ret.calls = <<>>
    /\ \A i \in Calls("Create") \cup Calls("Update") :
          /\ ret.calls[i].user.Status \in {"active", "disabled"}
          /\ cfg.status = Omitted => ret.calls[i].user.Status = "active"

C7_Witness ==
    /\ cfg.status = "locked" /\ d.id # "" /\ ret.calls = <<>>

\* C8: Delete issues exactly one remote call, a delete keyed on the identity
\* of the prior state; it returns that call's error; on success only the
\* identity changes, to empty; on error the resource data is untouched.
C8_DeleteByIdentity ==
    (ret.op = "Delete") =>
        /\ Len(ret.calls) = 1
        /\ ret.calls[1].call = "Delete"
        /\ ret.calls[1].id = ret.prior.id
        /\ ret.err = ret.calls[1].err
        /\ ret.err = NoErr => d = [ret.prior EXCEPT !.id = ""]
        /\ ret.err # NoErr => d = ret.prior

C8_Witness ==
    /\ ret.op = "Delete" /\ ret.err = NoErr
    /\ ret.prior.id = "admin" /\ d.id = "" /\ ~Exists(remote, "admin")

\* Something happened on the server after call i of the last callback
ChangedAfter(i) == \E j \in 1..Len(ret.oob) : ret.oob[j].at >= i

\* The server holds the configured values in the five profile fields
ServerMatchesConfig(id) ==
    /\ Present(remote, id)
    /\ remote[id].FirstName = cfg.firstname
    /\ remote[id].LastName = cfg.lastname
    /\ remote[id].EmailAddress = cfg.email
    /\ remote[id].Status = ConfiguredStatus
    /\ ListSet(remote[id].Roles) = cfg.roles

\* C9 as stated: after a successful Update that issued the general update
\* call the server holds the configured values in all five fields.
C9_AsStated ==
    (Returned("Update") /\ ret.err = NoErr /\ Issued("Update")) =>
        ServerMatchesConfig(ret.prior.id)

\* C9 amended: Update issues at most one general update call; that call
\* carries the five profile fields of the current configuration; when it
\* succeeds and nobody else changes the server after it, the server holds
\* the configured values in all five fields when Update returns, whatever
\* had been changed out of band before the call.
C9_UpdateSendsFullRecord ==
    (ret.op = "Update") =>
        /\ Cardinality(Calls("Update")) <= 1
        /\ \A i \in Calls("Update") :
              LET user == ret.calls[i].user IN
              /\ user.FirstName = cfg.firstname /\ user.LastName = cfg.lastname
              /\ user.EmailAddress = cfg.email /\ user.Status = ConfiguredStatus
              /\ ListSet(user.Roles) = cfg.roles
              /\ Len(user.Roles) = Cardinality(cfg.roles)
              /\ (ret.calls[i].err = NoErr /\ ~ChangedAfter(i)) =>
                    ServerMatchesConfig(ret.prior.id)

\* An update of the e-mail address alone while the roles on the server had
\* been changed out of band
C9_Witness ==
    /\ Returned("Update") /\ ret.err = NoErr /\ Issued("Update")
    /\ ret.oob = <<>>
    /\ ret.prior.email # cfg.email /\ ret.prior.roles = cfg.roles
    /\ ListSet(ret.before[ret.prior.id].Roles) # cfg.roles
    /\ ListSet(remote[ret.prior.id].Roles) = cfg.roles

\* C10: Read leaves the password as it was; when the user is found exactly
\* email, firstname, lastname, roles, status and userid take the values the
\* server returned; when Get fails Read returns its error and the resource
\* data, identity included, is untouched.  The Read that concludes Create
\* and Update leaves the password untouched as well.
C10_ReadKeepsPassword ==
    /\ (ret.op = "Read") =>
          /\ Len(ret.calls) = 1 /\ LastCall.call = "Get"
          /\ LastCall.id = ret.prior.id
          /\ ret.err = LastCall.err
          /\ d.password = ret.prior.password
          /\ remote = ret.before
          /\ ret.err # NoErr => d = ret.prior
          /\ (ret.err = NoErr /\ ~GotNoUser) =>
                LET user == LastCall.user IN
                d = [id |-> ret.prior.id, password |-> ret.prior.password,
                     email |-> user.EmailAddress, firstname |-> user.FirstName,
                     lastname |-> user.LastName, roles |-> ListSet(user.Roles),
                     status |-> user.Status, userid |-> user.UserID]
    /\ (ret.op \in {"Create", "Update"}) => d.password = cfg.password

C10_Witness ==
    /\ ret.op = "Read" /\ ret.err = NoErr /\ ~GotNoUser
    /\ d.email # ret.prior.email /\ d.password = "pw1"
    /\ remote[d.id].Password = "pw1"

====
